---- MODULE Spec2Model ----
(***************************************************************************)
(* Model of the connection registry of reqly (lib/src/websocket.rs):       *)
(* WebSocketManager, its command channel and the actor task spawned by     *)
(* WebSocketManager::new.  TcpManager has the same shape.                  *)
(***************************************************************************)
EXTENDS Integers, Sequences, FiniteSets, TLC

\* ---------------------------------------------------------------- bounds
MaxCalls == 4
MaxClosesFull == 34
MaxCallsDrop == 3
MaxHeaders == 2
MaxRaw == 4

\* ------------------------------------------- program constants and inputs
Capacity == 32

Callers == {1, 2}
Handles == {0, 1}
Urls == {"ws://localhost:8765", "not a url"}

Actor == 0
Free == -1

VARIABLES
    conns,      \* Vec<WebSocketConnection>: sequence of connection identities
    queue,      \* commands buffered in the mpsc channel
    lockHolder, \* owner of the Mutex guarding conns: Free, Actor or a caller
    alive,      \* the manager (and with it the only Sender) is not dropped
    pc,         \* position of each caller inside the method it runs
    arg,        \* locals of the running method of each caller
    ret,        \* value returned by the last finished method of each caller
    actorPc,    \* position of the spawned task
    actorCmd,   \* the command the spawned task has received
    wire,       \* per connection, the writes its transport has observed
    issued,     \* per connection, the id returned by the connect that made it
    inserted,   \* connections in the order of their push into conns
    removedBy,  \* per connection, the id of the Close that removed it, or -1
    enq,        \* number of commands enqueued so far
    nApplied,   \* number of commands the actor has finished applying
    calls,      \* number of connect and send_message calls started
    sendLog,    \* per caller, the finished send_message calls in order
    heldCloses, \* close_connection calls the holder of the view has finished
                \* since it took the view; 0 while no caller holds it
    hpc,        \* position inside send_http_request
    request,    \* its argument: HttpRequest
    easy,       \* the curl Easy handle: the options set on it
    headers_list,    \* the curl List the headers are appended to
    header_buffer,   \* bytes the header_function received
    response_body,   \* bytes the write_function received
    status_code,     \* easy.response_code()
    result      \* what send_http_request returned

wsVars == <<conns, queue, lockHolder, alive, pc, arg, ret, actorPc, actorCmd,
            wire, issued, inserted, removedBy, enq, nApplied, calls, sendLog,
            heldCloses>>

httpVars == <<hpc, request, easy, headers_list, header_buffer, response_body,
              status_code, result>>

vars == <<wsVars, httpVars>>

NoArg == [h |-> 0, msg |-> 0, conn |-> 0]
NoCmd == [op |-> "None", id |-> 0, msg |-> 0, seq |-> 0]
NoRet == [op |-> "none", ok |-> TRUE, val |-> 0]

Ok(o, v) == [op |-> o, ok |-> TRUE, val |-> v]
Err(o) == [op |-> o, ok |-> FALSE, val |-> 0]

\* Url::parse
UrlParses(url) == url = "ws://localhost:8765"

\* variant of Remove: the vector is left as it was
RemoveNothing(s, id) == s

\* variant of Remove: the last element is moved into the freed position
RemoveSwap(s, id) ==
    [i \in 1..(Len(s) - 1) |-> IF i = id + 1 THEN s[Len(s)] ELSE s[i]]

\* Vec::remove(id): the elements after position id move down by one
Remove(s, id) == [i \in 1..(Len(s) - 1) |-> IF i <= id THEN s[i] ELSE s[i + 1]]

\* variant of Write: the frame overtakes the frames already written
WriteFirst(log, entry) == <<entry>> \o log

\* Sink::send on a connection: the transport observes the frame after the
\* frames already written
Write(log, entry) == Append(log, entry)

\* ------------------------------------------------ send_http_request: data
\* the match arms of send_http_request that name a verb
KnownMethods ==
    {"GET", "POST", "PUT", "DELETE", "HEAD", "OPTIONS", "TRACE", "PATCH",
     "CONNECT"}

Methods == KnownMethods \cup {"INVALID"}
HeaderLines == {"Content-Type: application/json", "X-Test: 1"}
Bodies == {<<>>, <<"test data">>}
HttpUrl == "https://reqres.in/api/register"

\* bytes a server can send: a letter, carriage return, line feed, and a byte
\* that occurs in no UTF-8 text
Bytes == {"a", "CR", "LF", "XX"}
BodyBytes == {<<"a">>, <<"XX">>}
StatusCodes == {200, 405}

RECURSIVE SeqsUpTo(_, _)
SeqsUpTo(S, n) ==
    IF n = 0 THEN {<<>>}
    ELSE LET shorter == SeqsUpTo(S, n - 1)
         IN shorter \cup {Append(q, x) : q \in shorter, x \in S}

\* HttpRequest; body is Option<String>: <<>> is None, <<b>> is Some(b)
Requests ==
    [url : {HttpUrl}, method : Methods,
     headers : SeqsUpTo(HeaderLines, MaxHeaders), body : Bodies]

\* what the header_function can have collected when the transfer ends
HeaderBuffers == SeqsUpTo(Bytes, MaxRaw)

\* one header block that is text and one that is not
SampleBuffers == {<<"a", "CR", "LF", "CR", "LF">>, <<"XX", "CR", "LF">>}

\* a POST request with one header and a body, as in
\* test_send_http_request_post
SampleRequest ==
    [url |-> HttpUrl, method |-> "POST", headers |-> <<"Content-Type: application/json">>,
     body |-> <<"test data">>]

NoRequest == [url |-> "", method |-> "", headers |-> <<>>, body |-> <<>>]

\* Easy::new(): no option set yet
EasyNew ==
    [url |-> "", verb |-> [opt |-> "none", custom |-> ""],
     http_headers |-> <<>>, post_fields |-> <<>>]

NoResult ==
    [kind |-> "None", cause |-> "", status |-> 0, headers |-> <<>>,
     body |-> <<>>]

\* Err(e.to_string()): cause is the kind of error e
HttpErr(cause) ==
    [kind |-> "Err", cause |-> cause, status |-> 0, headers |-> <<>>,
     body |-> <<>>]

\* Ok(HttpResponse { status, headers, body })
HttpOk(status, headers, body) ==
    [kind |-> "Ok", cause |-> "", status |-> status, headers |-> headers,
     body |-> body]

\* variant of Dispatch: a token outside the verb list selects nothing
DispatchKnownOnly(method) ==
    CASE method = "GET" -> [opt |-> "get", custom |-> ""]
      [] method = "POST" -> [opt |-> "post", custom |-> ""]
      [] method = "PUT" -> [opt |-> "put", custom |-> ""]
      [] method = "HEAD" -> [opt |-> "nobody", custom |-> ""]
      [] method \in {"DELETE", "OPTIONS", "TRACE", "PATCH", "CONNECT"}
            -> [opt |-> "custom_request", custom |-> method]
      [] OTHER -> [opt |-> "none", custom |-> ""]

\* match request.method.as_str(): the option each arm sets on the handle
Dispatch(method) ==
    CASE method = "GET" -> [opt |-> "get", custom |-> ""]
      [] method = "POST" -> [opt |-> "post", custom |-> ""]
      [] method = "PUT" -> [opt |-> "put", custom |-> ""]
      [] method = "DELETE" -> [opt |-> "custom_request", custom |-> "DELETE"]
      [] method = "HEAD" -> [opt |-> "nobody", custom |-> ""]
      [] method = "OPTIONS" -> [opt |-> "custom_request", custom |-> "OPTIONS"]
      [] method = "TRACE" -> [opt |-> "custom_request", custom |-> "TRACE"]
      [] method = "PATCH" -> [opt |-> "custom_request", custom |-> "PATCH"]
      [] method = "CONNECT" -> [opt |-> "custom_request", custom |-> "CONNECT"]
      [] OTHER -> [opt |-> "custom_request", custom |-> method]

\* str::from_utf8 / String::from_utf8 succeed
Utf8Valid(bytes) == \A i \in 1..Len(bytes) : bytes[i] # "XX"

RECURSIVE SplitScan(_, _, _)
SplitScan(rest, cur, out) ==
    IF rest = <<>> THEN Append(out, cur)
    ELSE IF Len(rest) >= 2 /\ rest[1] = "CR" /\ rest[2] = "LF"
         THEN SplitScan(SubSeq(rest, 3, Len(rest)), <<>>, Append(out, cur))
         ELSE SplitScan(Tail(rest), Append(cur, rest[1]), out)

\* str::split("\r\n"): the pieces between the occurrences of CR LF, found
\* left to right; n occurrences give n + 1 pieces
SplitCRLF(bytes) == SplitScan(bytes, <<>>, <<>>)

IsEmpty(piece) == piece = <<>>

\* variant of ParseHeaders: the empty pieces are kept
ParseHeadersKeepEmpty(bytes) == SplitCRLF(bytes)

\* .split("\r\n").filter(|s| !s.is_empty()).map(String::from).collect()
ParseHeaders(bytes) == SelectSeq(SplitCRLF(bytes), LAMBDA piece : ~IsEmpty(piece))

Init ==
    /\ conns = <<>>
    /\ queue = <<>>
    /\ lockHolder = Free
    /\ alive = TRUE
    /\ pc = [c \in Callers |-> "idle"]
    /\ arg = [c \in Callers |-> NoArg]
    /\ ret = [c \in Callers |-> NoRet]
    /\ actorPc = "recv"
    /\ actorCmd = NoCmd
    /\ wire = <<>>
    /\ issued = <<>>
    /\ inserted = <<>>
    /\ removedBy = <<>>
    /\ enq = 0
    /\ nApplied = 0
    /\ calls = 0
    /\ sendLog = [c \in Callers |-> <<>>]
    /\ heldCloses = 0
    /\ hpc = "idle"
    /\ request = NoRequest
    /\ easy = EasyNew
    /\ headers_list = <<>>
    /\ header_buffer = <<>>
    /\ response_body = <<>>
    /\ status_code = 0
    /\ result = NoResult

\* ------------------------------------------------------------- connect
\* variant of ConnectCall: a url that does not parse yields a handle all the
\* same
ConnectCallSwallow(c, url) ==
    /\ UNCHANGED <<httpVars, heldCloses>>
    /\ alive
    /\ pc[c] = "idle"
    /\ IF UrlParses(url)
          THEN /\ pc' = [pc EXCEPT ![c] = "handshake"]
               /\ ret' = ret
          ELSE /\ pc' = pc
               /\ ret' = [ret EXCEPT ![c] = Ok("connect", Len(conns))]
    /\ calls' = calls + 1
    /\ UNCHANGED <<conns, queue, lockHolder, alive, arg, actorPc, actorCmd,
                   wire, issued, inserted, removedBy, enq, nApplied, sendLog>>

\* connect: Url::parse(url)?
ConnectCall(c, url) ==
    /\ UNCHANGED <<httpVars, heldCloses>>
    /\ alive
    /\ pc[c] = "idle"
    /\ IF UrlParses(url)
          THEN /\ pc' = [pc EXCEPT ![c] = "handshake"]
               /\ ret' = ret
          ELSE /\ pc' = pc
               /\ ret' = [ret EXCEPT ![c] = Err("connect")]
    /\ calls' = calls + 1
    /\ UNCHANGED <<conns, queue, lockHolder, alive, arg, actorPc, actorCmd,
                   wire, issued, inserted, removedBy, enq, nApplied, sendLog>>

\* variant of Handshake: the stream is put into the collection as soon as
\* the handshake is done
HandshakeVisible(c, ok) ==
    /\ UNCHANGED <<httpVars, heldCloses>>
    /\ pc[c] = "handshake"
    /\ IF ok
          THEN /\ wire' = Append(wire, <<>>)
               /\ issued' = Append(issued, -1)
               /\ removedBy' = Append(removedBy, -1)
               /\ arg' = [arg EXCEPT ![c].conn = Len(wire) + 1]
               /\ conns' = Append(conns, Len(wire) + 1)
               /\ pc' = [pc EXCEPT ![c] = "connect_lock"]
               /\ ret' = ret
          ELSE /\ pc' = [pc EXCEPT ![c] = "idle"]
               /\ ret' = [ret EXCEPT ![c] = Err("connect")]
               /\ UNCHANGED <<conns, wire, issued, removedBy, arg>>
    /\ UNCHANGED <<queue, lockHolder, alive, actorPc, actorCmd,
                   inserted, enq, nApplied, calls, sendLog>>

\* connect: connect_async(url).await?
Handshake(c, ok) ==
    /\ UNCHANGED <<httpVars, heldCloses>>
    /\ pc[c] = "handshake"
    /\ IF ok
          THEN /\ wire' = Append(wire, <<>>)
               /\ issued' = Append(issued, -1)
               /\ removedBy' = Append(removedBy, -1)
               /\ arg' = [arg EXCEPT ![c].conn = Len(wire) + 1]
               /\ pc' = [pc EXCEPT ![c] = "connect_lock"]
               /\ ret' = ret
          ELSE /\ pc' = [pc EXCEPT ![c] = "idle"]
               /\ ret' = [ret EXCEPT ![c] = Err("connect")]
               /\ UNCHANGED <<wire, issued, removedBy, arg>>
    /\ UNCHANGED <<conns, queue, lockHolder, alive, actorPc, actorCmd,
                   inserted, enq, nApplied, calls, sendLog>>

\* variant of ConnectLock: the collection is used without taking the mutex
ConnectLockNoMutex(c) ==
    /\ UNCHANGED <<httpVars, heldCloses>>
    /\ pc[c] = "connect_lock"
    /\ pc' = [pc EXCEPT ![c] = "connect_len"]
    /\ UNCHANGED <<conns, queue, lockHolder, alive, arg, ret, actorPc,
                   actorCmd, wire, issued, inserted, removedBy, enq, nApplied,
                   calls, sendLog>>

\* connect: self.connections.lock().await
ConnectLock(c) ==
    /\ UNCHANGED <<httpVars, heldCloses>>
    /\ pc[c] = "connect_lock"
    /\ lockHolder = Free
    /\ lockHolder' = c
    /\ pc' = [pc EXCEPT ![c] = "connect_len"]
    /\ UNCHANGED <<conns, queue, alive, arg, ret, actorPc, actorCmd, wire,
                   issued, inserted, removedBy, enq, nApplied, calls, sendLog>>

\* connect: let id = conns.len()
ConnectLen(c) ==
    /\ UNCHANGED <<httpVars, heldCloses>>
    /\ pc[c] = "connect_len"
    /\ arg' = [arg EXCEPT ![c].h = Len(conns)]
    /\ pc' = [pc EXCEPT ![c] = "connect_push"]
    /\ UNCHANGED <<conns, queue, lockHolder, alive, ret, actorPc, actorCmd,
                   wire, issued, inserted, removedBy, enq, nApplied, calls,
                   sendLog>>

\* connect: conns.push(ws_stream); Ok(id), the guard is dropped on return
ConnectPush(c) ==
    /\ UNCHANGED <<httpVars, heldCloses>>
    /\ pc[c] = "connect_push"
    /\ conns' = Append(conns, arg[c].conn)
    /\ inserted' = Append(inserted, arg[c].conn)
    /\ issued' = [issued EXCEPT ![arg[c].conn] = arg[c].h]
    /\ ret' = [ret EXCEPT ![c] = Ok("connect", arg[c].h)]
    /\ lockHolder' = IF lockHolder = c THEN Free ELSE lockHolder
    /\ arg' = [arg EXCEPT ![c] = NoArg]
    /\ pc' = [pc EXCEPT ![c] = "idle"]
    /\ UNCHANGED <<queue, alive, actorPc, actorCmd, wire, removedBy, enq,
                   nApplied, calls, sendLog>>

\* ------------------------------------------------------------- send_message
SendCall(c, h, m) ==
    /\ UNCHANGED <<httpVars, heldCloses>>
    /\ alive
    /\ pc[c] = "idle"
    /\ arg' = [arg EXCEPT ![c] = [h |-> h, msg |-> m, conn |-> 0]]
    /\ pc' = [pc EXCEPT ![c] = "send_lock"]
    /\ calls' = calls + 1
    /\ UNCHANGED <<conns, queue, lockHolder, alive, ret, actorPc, actorCmd,
                   wire, issued, inserted, removedBy, enq, nApplied, sendLog>>

\* send_message: self.connections.lock().await
SendLock(c) ==
    /\ UNCHANGED <<httpVars, heldCloses>>
    /\ pc[c] = "send_lock"
    /\ lockHolder = Free
    /\ lockHolder' = c
    /\ pc' = [pc EXCEPT ![c] = "send_write"]
    /\ UNCHANGED <<conns, queue, alive, arg, ret, actorPc, actorCmd, wire,
                   issued, inserted, removedBy, enq, nApplied, calls, sendLog>>

\* send_message: if let Some(conn) = conns.get_mut(id) { conn.send(..).await? }
\* Ok(()); ok is the outcome of the write
SendWrite(c, ok) ==
    /\ UNCHANGED <<httpVars, heldCloses>>
    /\ pc[c] = "send_write"
    /\ LET h == arg[c].h
           n == Len(sendLog[c]) + 1
           inRange == h < Len(conns)
       IN  /\ IF inRange /\ ok
                 THEN wire' = [wire EXCEPT ![conns[h + 1]] =
                                 Write(@, [by |-> c, n |-> n,
                                           msg |-> arg[c].msg])]
                 ELSE wire' = wire
           /\ ret' = [ret EXCEPT ![c] =
                        IF inRange /\ ~ok THEN Err("send") ELSE Ok("send", 0)]
           /\ sendLog' = [sendLog EXCEPT ![c] =
                            Append(@, [h |-> h, msg |-> arg[c].msg,
                                       ok |-> ~(inRange /\ ~ok),
                                       to |-> IF inRange /\ ok
                                                 THEN conns[h + 1] ELSE 0])]
    /\ lockHolder' = Free
    /\ arg' = [arg EXCEPT ![c] = NoArg]
    /\ pc' = [pc EXCEPT ![c] = "idle"]
    /\ UNCHANGED <<conns, queue, alive, actorPc, actorCmd, issued, inserted,
                   removedBy, enq, nApplied, calls>>

\* ------------------------------------------------------------- close_connection
CloseCall(c, h) ==
    /\ UNCHANGED <<httpVars, heldCloses>>
    /\ alive
    /\ pc[c] = "idle"
    /\ arg' = [arg EXCEPT ![c] = [h |-> h, msg |-> 0, conn |-> 0]]
    /\ pc' = [pc EXCEPT ![c] = "close_send"]
    /\ UNCHANGED <<conns, queue, lockHolder, alive, ret, actorPc, actorCmd,
                   wire, issued, inserted, removedBy, enq, nApplied, calls,
                   sendLog>>

\* variant of CloseEnqueue: the channel accepts a command whatever it holds
CloseEnqueueUnbounded(c) ==
    /\ UNCHANGED httpVars
    /\ heldCloses' = IF lockHolder = c THEN heldCloses + 1 ELSE heldCloses
    /\ pc[c] = "close_send"
    /\ queue' = Append(queue, [op |-> "Close", id |-> arg[c].h,
                               msg |-> 0, seq |-> enq + 1])
    /\ enq' = enq + 1
    /\ ret' = [ret EXCEPT ![c] = Ok("close", 0)]
    /\ arg' = [arg EXCEPT ![c] = NoArg]
    /\ pc' = [pc EXCEPT ![c] = "idle"]
    /\ UNCHANGED <<conns, lockHolder, alive, actorPc, actorCmd, wire, issued,
                   inserted, removedBy, nApplied, calls, sendLog>>

\* close_connection: let _ = self.sender.send(Close(id)).await
\* Sender::send waits for a free slot; it fails, and the failure is dropped,
\* once the receiver is gone
CloseEnqueue(c) ==
    /\ UNCHANGED httpVars
    /\ heldCloses' = IF lockHolder = c THEN heldCloses + 1 ELSE heldCloses
    /\ pc[c] = "close_send"
    /\ IF actorPc = "done"
          THEN UNCHANGED <<queue, enq>>
          ELSE /\ Len(queue) < Capacity
               /\ queue' = Append(queue, [op |-> "Close", id |-> arg[c].h,
                                          msg |-> 0, seq |-> enq + 1])
               /\ enq' = enq + 1
    /\ ret' = [ret EXCEPT ![c] = Ok("close", 0)]
    /\ arg' = [arg EXCEPT ![c] = NoArg]
    /\ pc' = [pc EXCEPT ![c] = "idle"]
    /\ UNCHANGED <<conns, lockHolder, alive, actorPc, actorCmd, wire, issued,
                   inserted, removedBy, nApplied, calls, sendLog>>

\* ------------------------------------------------------------- get_connections
\* get_connections: self.connections.lock().await, the guard goes to the caller
GetConnections(c) ==
    /\ UNCHANGED httpVars
    /\ heldCloses' = 0
    /\ alive
    /\ pc[c] = "idle"
    /\ lockHolder = Free
    /\ lockHolder' = c
    /\ UNCHANGED <<conns, queue, alive, pc, arg, ret, actorPc, actorCmd, wire,
                   issued, inserted, removedBy, enq, nApplied, calls, sendLog>>

\* the caller drops the MutexGuard it got from get_connections
DropView(c) ==
    /\ UNCHANGED httpVars
    /\ heldCloses' = 0
    /\ pc[c] = "idle"
    /\ lockHolder = c
    /\ lockHolder' = Free
    /\ UNCHANGED <<conns, queue, alive, pc, arg, ret, actorPc, actorCmd, wire,
                   issued, inserted, removedBy, enq, nApplied, calls, sendLog>>

\* ------------------------------------------------------------- the actor task
\* variant of ActorRecv: the receiver hands out the newest buffered command
ActorRecvNewest ==
    /\ UNCHANGED <<httpVars, heldCloses>>
    /\ actorPc = "recv"
    /\ queue # <<>>
    /\ actorCmd' = queue[Len(queue)]
    /\ queue' = SubSeq(queue, 1, Len(queue) - 1)
    /\ actorPc' = "lock"
    /\ UNCHANGED <<conns, lockHolder, alive, pc, arg, ret, wire, issued,
                   inserted, removedBy, enq, nApplied, calls, sendLog>>

\* while let Some(command) = receiver.recv().await
ActorRecv ==
    /\ UNCHANGED <<httpVars, heldCloses>>
    /\ actorPc = "recv"
    /\ queue # <<>>
    /\ actorCmd' = Head(queue)
    /\ queue' = Tail(queue)
    /\ actorPc' = "lock"
    /\ UNCHANGED <<conns, lockHolder, alive, pc, arg, ret, wire, issued,
                   inserted, removedBy, enq, nApplied, calls, sendLog>>

\* variant of ActorLock: the arm works on the collection without the mutex
ActorLockNoMutex ==
    /\ UNCHANGED <<httpVars, heldCloses>>
    /\ actorPc = "lock"
    /\ actorPc' = "apply"
    /\ UNCHANGED <<conns, queue, lockHolder, alive, pc, arg, ret, actorCmd,
                   wire, issued, inserted, removedBy, enq, nApplied, calls,
                   sendLog>>

\* connections.lock().await in either arm of the match
ActorLock ==
    /\ UNCHANGED <<httpVars, heldCloses>>
    /\ actorPc = "lock"
    /\ lockHolder = Free
    /\ lockHolder' = Actor
    /\ actorPc' = "apply"
    /\ UNCHANGED <<conns, queue, alive, pc, arg, ret, actorCmd, wire, issued,
                   inserted, removedBy, enq, nApplied, calls, sendLog>>

\* variant of ActorApply: a Close whose id is past the end is clamped to the
\* last position instead of being ignored
ActorApplyClamped(ok) ==
    /\ UNCHANGED <<httpVars, heldCloses>>
    /\ actorPc = "apply"
    /\ LET id == IF actorCmd.id < Len(conns) \/ conns = <<>>
                    THEN actorCmd.id ELSE Len(conns) - 1
           inRange == id < Len(conns)
       IN  /\ IF inRange /\ actorCmd.op = "Close"
                 THEN /\ conns' = Remove(conns, id)
                      /\ removedBy' = [removedBy EXCEPT ![conns[id + 1]] = id]
                 ELSE UNCHANGED <<conns, removedBy>>
           /\ wire' = wire
    /\ nApplied' = nApplied + 1
    /\ actorCmd' = NoCmd
    /\ lockHolder' = Free
    /\ actorPc' = "recv"
    /\ UNCHANGED <<queue, alive, pc, arg, ret, issued, inserted, enq, calls,
                   sendLog>>

\* the body of the match arm; ok is the outcome of the write of SendMessage,
\* which the arm discards (let _ =)
ActorApply(ok) ==
    /\ UNCHANGED <<httpVars, heldCloses>>
    /\ actorPc = "apply"
    /\ LET id == actorCmd.id
           inRange == id < Len(conns)
       IN  CASE actorCmd.op = "SendMessage" ->
                  /\ IF inRange /\ ok
                        THEN wire' = [wire EXCEPT ![conns[id + 1]] =
                                        Write(@, [by |-> Actor,
                                                  n |-> actorCmd.seq,
                                                  msg |-> actorCmd.msg])]
                        ELSE wire' = wire
                  /\ UNCHANGED <<conns, removedBy>>
            [] actorCmd.op = "Close" ->
                  /\ IF inRange
                        THEN /\ conns' = Remove(conns, id)
                             /\ removedBy' =
                                  [removedBy EXCEPT ![conns[id + 1]] = id]
                        ELSE UNCHANGED <<conns, removedBy>>
                  /\ wire' = wire
    /\ nApplied' = nApplied + 1
    /\ actorCmd' = NoCmd
    /\ lockHolder' = Free
    /\ actorPc' = "recv"
    /\ UNCHANGED <<queue, alive, pc, arg, ret, issued, inserted, enq, calls,
                   sendLog>>

\* variant of ActorStop: the task closes the connections that are left
ActorStopDrains ==
    /\ UNCHANGED <<httpVars, heldCloses>>
    /\ actorPc = "recv"
    /\ ~alive
    /\ queue = <<>>
    /\ actorPc' = "done"
    /\ conns' = <<>>
    /\ UNCHANGED <<queue, lockHolder, alive, pc, arg, ret, actorCmd, wire,
                   issued, inserted, removedBy, enq, nApplied, calls, sendLog>>

\* receiver.recv() yields None: every Sender is dropped and the buffer is empty
ActorStop ==
    /\ UNCHANGED <<httpVars, heldCloses>>
    /\ actorPc = "recv"
    /\ ~alive
    /\ queue = <<>>
    /\ actorPc' = "done"
    /\ UNCHANGED <<conns, queue, lockHolder, alive, pc, arg, ret, actorCmd,
                   wire, issued, inserted, removedBy, enq, nApplied, calls,
                   sendLog>>

\* the owner drops the manager; no method borrows it and no view is held
DropManager ==
    /\ UNCHANGED <<httpVars, heldCloses>>
    /\ alive
    /\ \A c \in Callers : pc[c] = "idle" /\ lockHolder # c
    /\ alive' = FALSE
    /\ UNCHANGED <<conns, queue, lockHolder, pc, arg, ret, actorPc, actorCmd,
                   wire, issued, inserted, removedBy, enq, nApplied, calls,
                   sendLog>>

\* ------------------------------------------------------------- specifications
\* the payload of the n-th send_message of a caller is the text n: payloads
\* are told apart, and the code never looks into one
Payload(c) == Len(sendLog[c]) + 1

ClosesStarted == enq + Cardinality({c \in Callers : pc[c] = "close_send"})

Next ==
    \/ \E c \in Callers, url \in Urls :
          calls + ClosesStarted < MaxCalls /\ ConnectCall(c, url)
    \/ \E c \in Callers, ok \in BOOLEAN : Handshake(c, ok)
    \/ \E c \in Callers : ConnectLock(c)
    \/ \E c \in Callers : ConnectLen(c)
    \/ \E c \in Callers : ConnectPush(c)
    \/ \E c \in Callers, h \in Handles :
          calls + ClosesStarted < MaxCalls /\ SendCall(c, h, Payload(c))
    \/ \E c \in Callers : SendLock(c)
    \/ \E c \in Callers, ok \in BOOLEAN : SendWrite(c, ok)
    \/ \E c \in Callers, h \in Handles :
          calls + ClosesStarted < MaxCalls /\ CloseCall(c, h)
    \/ \E c \in Callers : CloseEnqueue(c)
    \/ \E c \in Callers : GetConnections(c)
    \/ \E c \in Callers : DropView(c)
    \/ ActorRecv
    \/ ActorLock
    \/ \E ok \in BOOLEAN : ActorApply(ok)
    \/ ActorStop
    \/ DropManager

Spec == Init /\ [][Next]_vars

\* A manager on which the callers only call close_connection(0) and
\* get_connections, often enough to fill the channel
NextFull ==
    \/ \E c \in Callers : ClosesStarted < MaxClosesFull /\ CloseCall(c, 0)
    \/ \E c \in Callers : CloseEnqueue(c)
    \/ \E c \in Callers : GetConnections(c)
    \/ \E c \in Callers : DropView(c)
    \/ ActorRecv
    \/ ActorLock
    \/ \E ok \in BOOLEAN : ActorApply(ok)
    \/ ActorStop
    \/ DropManager

SpecFull == Init /\ [][NextFull]_vars

\* A manager on which connections are opened and closed and which is then
\* dropped; the runtime keeps scheduling the spawned task
NextDrop ==
    \/ \E c \in Callers :
          calls + ClosesStarted < MaxCallsDrop
          /\ ConnectCall(c, "ws://localhost:8765")
    \/ \E c \in Callers, ok \in BOOLEAN : Handshake(c, ok)
    \/ \E c \in Callers : ConnectLock(c)
    \/ \E c \in Callers : ConnectLen(c)
    \/ \E c \in Callers : ConnectPush(c)
    \/ \E c \in Callers, h \in Handles :
          calls + ClosesStarted < MaxCallsDrop /\ CloseCall(c, h)
    \/ \E c \in Callers : CloseEnqueue(c)
    \/ ActorRecv
    \/ ActorLock
    \/ \E ok \in BOOLEAN : ActorApply(ok)
    \/ ActorStop
    \/ DropManager

SpecDrop ==
    /\ Init
    /\ [][NextDrop]_vars
    /\ WF_vars(ActorRecv)
    /\ WF_vars(ActorLock)
    /\ WF_vars(\E ok \in BOOLEAN : ActorApply(ok))
    /\ WF_vars(ActorStop)

\* A manager that stays alive, on which caller 1 calls close_connection(0)
\* and both callers take and drop the view.  The runtime keeps polling the
\* spawned task; the tokio Mutex and the semaphore of the channel serve
\* their waiters in the order of arrival, so the actor gets the lock, and a
\* close gets a slot, if it is free again and again.
NextLive ==
    \/ ClosesStarted < MaxClosesFull /\ CloseCall(1, 0)
    \/ \E c \in Callers : CloseEnqueue(c)
    \/ \E c \in Callers : GetConnections(c)
    \/ \E c \in Callers : DropView(c)
    \/ ActorRecv
    \/ ActorLock
    \/ \E ok \in BOOLEAN : ActorApply(ok)

SpecLive ==
    /\ Init
    /\ [][NextLive]_vars
    /\ WF_vars(ActorRecv)
    /\ SF_vars(ActorLock)
    /\ WF_vars(\E ok \in BOOLEAN : ActorApply(ok))
    /\ \A c \in Callers : SF_vars(CloseEnqueue(c))

\* --------------------------------------------------- send_http_request
\* send_http_request(request) is entered: Easy::new()
HttpCall(req) ==
    /\ hpc = "idle"
    /\ hpc' = "url"
    /\ request' = req
    /\ easy' = EasyNew
    /\ UNCHANGED <<headers_list, header_buffer, response_body, status_code,
                   result>>
    /\ UNCHANGED wsVars

\* easy.url(&request.url).map_err(|e| e.to_string())?
SetUrl(ok) ==
    /\ hpc = "url"
    /\ IF ok
          THEN /\ easy' = [easy EXCEPT !.url = request.url]
               /\ hpc' = "method"
               /\ result' = result
          ELSE /\ easy' = easy
               /\ hpc' = "done"
               /\ result' = HttpErr("curl")
    /\ UNCHANGED <<request, headers_list, header_buffer, response_body,
                   status_code>>
    /\ UNCHANGED wsVars

\* match request.method.as_str() { ... }.map_err(|e| e.to_string())?
SetMethod(ok) ==
    /\ hpc = "method"
    /\ IF ok
          THEN /\ easy' = [easy EXCEPT !.verb = Dispatch(request.method)]
               /\ hpc' = "headers"
               /\ result' = result
          ELSE /\ easy' = easy
               /\ hpc' = "done"
               /\ result' = HttpErr("curl")
    /\ UNCHANGED <<request, headers_list, header_buffer, response_body,
                   status_code>>
    /\ UNCHANGED wsVars

\* one turn of the loop: headers_list.append(&header).map_err(..)?
AppendHeader(ok) ==
    /\ hpc = "headers"
    /\ Len(headers_list) < Len(request.headers)
    /\ IF ok
          THEN /\ headers_list' =
                     Append(headers_list,
                            request.headers[Len(headers_list) + 1])
               /\ hpc' = hpc
               /\ result' = result
          ELSE /\ headers_list' = headers_list
               /\ hpc' = "done"
               /\ result' = HttpErr("curl")
    /\ UNCHANGED <<request, easy, header_buffer, response_body, status_code>>
    /\ UNCHANGED wsVars

\* after the loop: easy.http_headers(headers_list).map_err(..)?
SetHeaders(ok) ==
    /\ hpc = "headers"
    /\ Len(headers_list) = Len(request.headers)
    /\ IF ok
          THEN /\ easy' = [easy EXCEPT !.http_headers = headers_list]
               /\ hpc' = "body"
               /\ result' = result
          ELSE /\ easy' = easy
               /\ hpc' = "done"
               /\ result' = HttpErr("curl")
    /\ UNCHANGED <<request, headers_list, header_buffer, response_body,
                   status_code>>
    /\ UNCHANGED wsVars

\* variant of SetBody: the body is attached for POST and PUT only
SetBodyOnlyPost(ok) ==
    /\ hpc = "body"
    /\ IF request.body = <<>> \/ request.method \notin {"POST", "PUT"}
          THEN /\ easy' = easy
               /\ hpc' = "transfer"
               /\ result' = result
          ELSE IF ok
                  THEN /\ easy' = [easy EXCEPT !.post_fields = request.body]
                       /\ hpc' = "transfer"
                       /\ result' = result
                  ELSE /\ easy' = easy
                       /\ hpc' = "done"
                       /\ result' = HttpErr("curl")
    /\ UNCHANGED <<request, headers_list, header_buffer, response_body,
                   status_code>>
    /\ UNCHANGED wsVars

\* if let Some(body) = request.body
\*     { easy.post_fields_copy(body.as_bytes()).map_err(..)?; }
SetBody(ok) ==
    /\ hpc = "body"
    /\ IF request.body = <<>>
          THEN /\ easy' = easy
               /\ hpc' = "transfer"
               /\ result' = result
          ELSE IF ok
                  THEN /\ easy' = [easy EXCEPT !.post_fields = request.body]
                       /\ hpc' = "transfer"
                       /\ result' = result
                  ELSE /\ easy' = easy
                       /\ hpc' = "done"
                       /\ result' = HttpErr("curl")
    /\ UNCHANGED <<request, headers_list, header_buffer, response_body,
                   status_code>>
    /\ UNCHANGED wsVars

\* the transfer block: write_function, header_function, perform, each with
\* map_err(..)?; the callbacks extend the two buffers with what arrives.
\* When the transfer fails the buffers are locals that are never read again.
Perform(ok, hdr, bdy) ==
    /\ hpc = "transfer"
    /\ IF ok
          THEN /\ header_buffer' = hdr
               /\ response_body' = bdy
               /\ hpc' = "status"
               /\ result' = result
          ELSE /\ header_buffer' = header_buffer
               /\ response_body' = response_body
               /\ hpc' = "done"
               /\ result' = HttpErr("curl")
    /\ UNCHANGED <<request, easy, headers_list, status_code>>
    /\ UNCHANGED wsVars

\* let status_code = easy.response_code().map_err(|e| e.to_string())?
ResponseCode(ok, code) ==
    /\ hpc = "status"
    /\ IF ok
          THEN /\ status_code' = code
               /\ hpc' = "decode"
               /\ result' = result
          ELSE /\ status_code' = status_code
               /\ hpc' = "done"
               /\ result' = HttpErr("curl")
    /\ UNCHANGED <<request, easy, headers_list, header_buffer, response_body>>
    /\ UNCHANGED wsVars

\* variant of Decode: bytes that are no UTF-8 text are dropped from the body
\* (String::from_utf8_lossy) instead of failing the call
DecodeLossy ==
    /\ hpc = "decode"
    /\ hpc' = "done"
    /\ result' =
          IF ~Utf8Valid(header_buffer)
             THEN HttpErr("utf8")
             ELSE HttpOk(status_code, ParseHeaders(header_buffer),
                         SelectSeq(response_body, LAMBDA b : b # "XX"))
    /\ UNCHANGED <<request, easy, headers_list, header_buffer, response_body,
                   status_code>>
    /\ UNCHANGED wsVars

\* str::from_utf8(&header_buffer)?, the split into header lines, then
\* Ok(HttpResponse { .., body: String::from_utf8(response_body)? })
Decode ==
    /\ hpc = "decode"
    /\ hpc' = "done"
    /\ result' =
          IF ~Utf8Valid(header_buffer)
             THEN HttpErr("utf8")
             ELSE IF ~Utf8Valid(response_body)
                     THEN HttpErr("utf8")
                     ELSE HttpOk(status_code, ParseHeaders(header_buffer),
                                 response_body)
    /\ UNCHANGED <<request, easy, headers_list, header_buffer, response_body,
                   status_code>>
    /\ UNCHANGED wsVars

\* One call of send_http_request, with every request of Requests and every
\* outcome of the curl calls
NextHttp ==
    \/ \E req \in Requests : HttpCall(req)
    \/ \E ok \in BOOLEAN : SetUrl(ok)
    \/ \E ok \in BOOLEAN : SetMethod(ok)
    \/ \E ok \in BOOLEAN : AppendHeader(ok)
    \/ \E ok \in BOOLEAN : SetHeaders(ok)
    \/ \E ok \in BOOLEAN : SetBody(ok)
    \/ \E ok \in BOOLEAN, hdr \in SampleBuffers, bdy \in BodyBytes :
          Perform(ok, hdr, bdy)
    \/ \E ok \in BOOLEAN, code \in StatusCodes : ResponseCode(ok, code)
    \/ Decode

SpecHttp == Init /\ [][NextHttp]_vars

\* One call of send_http_request with one request, with every header block
\* of HeaderBuffers as what the server sends
NextHttpResp ==
    \/ HttpCall(SampleRequest)
    \/ \E ok \in BOOLEAN : SetUrl(ok)
    \/ \E ok \in BOOLEAN : SetMethod(ok)
    \/ \E ok \in BOOLEAN : AppendHeader(ok)
    \/ \E ok \in BOOLEAN : SetHeaders(ok)
    \/ \E ok \in BOOLEAN : SetBody(ok)
    \/ \E ok \in BOOLEAN, hdr \in HeaderBuffers, bdy \in BodyBytes :
          Perform(ok, hdr, bdy)
    \/ \E ok \in BOOLEAN, code \in StatusCodes : ResponseCode(ok, code)
    \/ Decode

SpecHttpResp == Init /\ [][NextHttpResp]_vars

\* ------------------------------------------------------------- properties

\* C1: the actor applies the commands in the order of their enqueue, one at
\* a time: the k-th command it applies is the k-th command that was
\* enqueued, the commands still buffered follow in enqueue order, and it
\* holds the collection lock while it applies a command.
C1_FifoOrder ==
    LET held == IF actorCmd = NoCmd THEN 0 ELSE 1
    IN  /\ actorCmd # NoCmd => actorCmd.seq = nApplied + 1
        /\ \A i \in 1..Len(queue) : queue[i].seq = nApplied + held + i
        /\ nApplied + held + Len(queue) = enq
        /\ actorPc = "apply" => lockHolder = Actor

C1_Witness ==
    /\ nApplied = 2
    /\ \E k \in 1..Len(removedBy) : removedBy[k] = 1

\* C2: send only enqueues a SendMessage command: a caller inside send never
\* waits for the collection lock, never performs the write itself (every
\* write a transport observes was made by the actor), and is suspended only
\* while the command queue is full.
C2_SendOnlyEnqueues ==
    /\ \A c \in Callers :
          (pc[c] = "send_lock" /\ lockHolder # Free) => Len(queue) = Capacity
    /\ \A c \in Callers : pc[c] # "send_write"
    /\ \A k \in 1..Len(wire) : \A i \in 1..Len(wire[k]) : wire[k][i].by = Actor

\* C3: a failure of the write that delivers a send is never reported to the
\* caller of send: every finished send returned success.
C3_SendNeverReportsWriteFailure ==
    \A c \in Callers : ret[c].op = "send" => ret[c].ok

\* C4: a send or close addressed to a handle that is out of range when it is
\* applied returns no error, writes nothing and leaves the collection as it
\* was; close itself returns no error and touches neither.
C4_OutOfRangeIgnored ==
    [][/\ \A c \in Callers :
             (pc[c] = "send_write" /\ pc'[c] = "idle"
              /\ arg[c].h >= Len(conns))
             => (ret'[c] = Ok("send", 0) /\ conns' = conns /\ wire' = wire)
       /\ \A c \in Callers :
             (pc[c] = "close_send" /\ pc'[c] = "idle")
             => (ret'[c] = Ok("close", 0) /\ conns' = conns /\ wire' = wire)
       /\ (actorPc = "apply" /\ actorPc' = "recv"
           /\ actorCmd.id >= Len(conns))
          => (conns' = conns /\ wire' = wire /\ ret' = ret)
      ]_vars

C4_Witness ==
    /\ conns # <<>>
    /\ nApplied > Cardinality({k \in 1..Len(removedBy) : removedBy[k] # -1})
    /\ \E c \in Callers : \E i \in 1..Len(sendLog[c]) :
          sendLog[c][i].ok /\ sendLog[c][i].to = 0

\* C5: a close on a handle whose connection an earlier close of that handle
\* removed (and that no open connection was issued) removes no connection.
C5_SecondCloseNoEffect ==
    [][(/\ actorPc = "apply" /\ actorPc' = "recv"
        /\ actorCmd.op = "Close"
        /\ \E k \in 1..Len(issued) :
              issued[k] = actorCmd.id /\ removedBy[k] = actorCmd.id
        /\ \A i \in 1..Len(conns) : issued[conns[i]] # actorCmd.id)
       => conns' = conns
      ]_vars

\* C6: any two successful connects return distinct handles, and the handles
\* are ordered as the insertions into the collection were.
C6_DistinctOrderedHandles ==
    \A i, j \in 1..Len(inserted) :
        i < j => issued[inserted[i]] < issued[inserted[j]]

\* C7: the handle a successful connect returns is the length of the
\* collection right before its push, the new connection is afterwards the
\* last element, at that position, and between reading the length and the
\* push the caller holds the lock and the collection does not change.
C7_HandleIsPositionAtInsertion ==
    [][\A c \in Callers :
          /\ (pc[c] = "connect_push" /\ pc'[c] = "idle")
             => /\ ret'[c] = Ok("connect", Len(conns))
                /\ Len(conns') = Len(conns) + 1
                /\ conns'[ret'[c].val + 1] = arg[c].conn
                /\ SubSeq(conns', 1, Len(conns)) = conns
          /\ (pc[c] = "connect_push" /\ pc'[c] = "connect_push")
             => (lockHolder = c /\ conns' = conns /\ arg[c].h = Len(conns))
      ]_vars

C7_Witness ==
    /\ \E c \in Callers : ret[c] = Ok("connect", 1)
    /\ Len(conns) = 2
    /\ issued[conns[2]] = 1
    /\ nApplied >= 1

\* C8 as stated: of two sends of one caller on the same handle, when the
\* transport of a connection observed the first and the second returned
\* success, the transport of that connection observed the second as well.
C8_BothWritesObserved ==
    \A c \in Callers : \A i, j \in 1..Len(sendLog[c]) :
        (i < j /\ sendLog[c][i].h = sendLog[c][j].h
         /\ sendLog[c][i].to # 0 /\ sendLog[c][j].ok)
        => sendLog[c][j].to = sendLog[c][i].to

\* C8 (amended): the writes of two sends of one caller on the same handle
\* that reach the same connection are observed by its transport in the order
\* in which the sends were issued.
C8_WritesInIssueOrder ==
    \A k \in 1..Len(wire) : \A i, j \in 1..Len(wire[k]) :
        (/\ i < j
         /\ wire[k][i].by \in Callers
         /\ wire[k][i].by = wire[k][j].by
         /\ sendLog[wire[k][i].by][wire[k][i].n].h
               = sendLog[wire[k][j].by][wire[k][j].n].h)
        => wire[k][i].n < wire[k][j].n

C8_Witness ==
    \E k \in 1..Len(wire) :
        /\ Len(wire[k]) = 2
        /\ wire[k][1].by = wire[k][2].by
        /\ wire[k][1].msg # wire[k][2].msg
        /\ sendLog[wire[k][1].by][1].h = sendLog[wire[k][1].by][2].h

\* C9: on a fresh manager the first connection inserted gets handle 0; a
\* send(0, m) whose write succeeds adds exactly the frame m, once, to the
\* transport of the connection at position 0 and to no other; and when only
\* that connection was ever opened and a Close(0) has removed it, a send on
\* handle 0 writes nothing.
C9_Scenario ==
    [][/\ Len(inserted') >= 1 => issued'[inserted'[1]] = 0
       /\ \A c \in Callers :
             (pc[c] = "send_write" /\ pc'[c] = "idle" /\ arg[c].h = 0)
             => /\ (Len(conns) > 0 /\ ret'[c].ok)
                   => /\ Len(wire'[conns[1]]) = Len(wire[conns[1]]) + 1
                      /\ wire'[conns[1]][Len(wire'[conns[1]])].msg = arg[c].msg
                      /\ SubSeq(wire'[conns[1]], 1, Len(wire[conns[1]]))
                            = wire[conns[1]]
                      /\ \A k \in 1..Len(wire) :
                            k # conns[1] => wire'[k] = wire[k]
                /\ (Len(wire) = 1 /\ removedBy[1] = 0) => wire' = wire
      ]_vars

C9_Witness ==
    /\ Len(wire) = 1
    /\ removedBy[1] = 0
    /\ \E c \in Callers :
          /\ Len(sendLog[c]) = 2
          /\ sendLog[c][1] = [h |-> 0, msg |-> 1, ok |-> TRUE, to |-> 1]
          /\ sendLog[c][2] = [h |-> 0, msg |-> 2, ok |-> TRUE, to |-> 0]
          /\ wire[1] = <<[by |-> c, n |-> 1, msg |-> 1]>>

\* C10: the channel never buffers more than 32 commands; a close returns
\* only in a step that finds a free slot and puts its Close command behind
\* the commands already buffered, so it waits while the channel is full; and
\* the buffered commands stay in enqueue order.
C10_BoundedQueue ==
    [][/\ Len(queue') <= Capacity
       /\ \A c \in Callers :
             (pc[c] = "close_send" /\ pc'[c] = "idle")
             => /\ Len(queue) < Capacity
                /\ queue' = Append(queue, [op |-> "Close", id |-> arg[c].h,
                                           msg |-> 0, seq |-> enq + 1])
       /\ \A i \in 1..(Len(queue') - 1) : queue'[i].seq < queue'[i + 1].seq
       /\ (actorPc = "recv" /\ actorPc' = "lock")
          => (actorCmd' = Head(queue) /\ queue' = Tail(queue))
      ]_vars

C10_Witness ==
    /\ Len(queue) = Capacity
    /\ enq > Capacity
    /\ \E c \in Callers : pc[c] = "close_send"

\* C11: once the manager is dropped the receive loop of the actor eventually
\* ends; after the drop no command is enqueued, the collection changes only
\* when the actor applies a Close that was already queued, and the end of the
\* loop removes no connection.
C11_Teardown ==
    /\ (~alive) ~> (actorPc = "done")
    /\ [][~alive
          => /\ enq' = enq
             /\ Len(queue') <= Len(queue)
             /\ conns' # conns
                => /\ actorPc = "apply" /\ actorPc' = "recv"
                   /\ actorCmd.op = "Close"
                   /\ actorCmd.seq <= enq
                   /\ conns' = Remove(conns, actorCmd.id)
             /\ actorPc' = "done" => conns' = conns
         ]_vars

C11_Witness ==
    /\ ~alive
    /\ actorPc = "done"
    /\ conns # <<>>
    /\ \E k \in 1..Len(removedBy) : removedBy[k] # -1

\* C16: when the actor applies Close(h) with h a valid position, the length
\* drops by one, the connections below h keep their position, the
\* connections above h move down by one and the connection that was at h is
\* gone.
C16_CloseFrame ==
    [][(/\ actorPc = "apply" /\ actorPc' = "recv"
        /\ actorCmd.op = "Close"
        /\ actorCmd.id < Len(conns))
       => /\ Len(conns') = Len(conns) - 1
          /\ \A k \in 0..(Len(conns) - 1) :
                /\ k < actorCmd.id => conns'[k + 1] = conns[k + 1]
                /\ k > actorCmd.id => conns'[k] = conns[k + 1]
          /\ \A i \in 1..Len(conns') : conns'[i] # conns[actorCmd.id + 1]
      ]_vars

C16_Witness ==
    /\ Len(inserted) = 3
    /\ Len(conns) = 2
    /\ removedBy[inserted[2]] = 1
    /\ conns = <<inserted[1], inserted[3]>>

\* C17: handles are not stable.  An open connection sits at or below the
\* position its handle names; it sits below it only after the actor removed
\* a connection that was inserted earlier, and from then on the handle names
\* another connection or none.  The witness is the interleaving of the
\* claim: the connect has just returned handle 1 to its caller, and the
\* Close(0) of the earlier connection has since been applied.
C17_HandleDrift ==
    \A i \in 1..Len(conns) :
        LET k == conns[i]
        IN  /\ i - 1 <= issued[k]
            /\ i - 1 < issued[k]
               => /\ \E a, b \in 1..Len(inserted) :
                        /\ a < b
                        /\ inserted[b] = k
                        /\ removedBy[inserted[a]] # -1
                  /\ issued[k] < Len(conns) => conns[issued[k] + 1] # k

C17_Witness ==
    /\ inserted = <<1, 2>>
    /\ issued = <<0, 1>>
    /\ removedBy = <<0, -1>>
    /\ conns = <<2>>
    /\ \E c \in Callers : ret[c] = Ok("connect", 1)

\* C18: the life of a connection is monotone.  The collection changes only
\* when a connect that succeeded pushes its new connection or when the
\* actor applies a Close; a connection is not in the collection while its
\* connect is still running, is in it at most once, and is never in it
\* again once removed.  Sends, failed connects and views leave it alone.
C18_Lifecycle ==
    [][/\ conns' # conns
          => \/ \E c \in Callers :
                   /\ pc[c] = "connect_push" /\ pc'[c] = "idle"
                   /\ ret'[c].op = "connect" /\ ret'[c].ok
                   /\ conns' = Append(conns, arg[c].conn)
                   /\ removedBy[arg[c].conn] = -1
             \/ /\ actorPc = "apply" /\ actorPc' = "recv"
                /\ actorCmd.op = "Close"
                /\ Len(conns') = Len(conns) - 1
                /\ \A i \in 1..Len(conns') : \E j \in 1..Len(conns) :
                      conns'[i] = conns[j]
       /\ \A i \in 1..Len(conns') :
             /\ removedBy'[conns'[i]] = -1
             /\ \A j \in 1..Len(conns') : conns'[i] = conns'[j] => i = j
             /\ \A c \in Callers :
                   pc'[c] \in {"connect_lock", "connect_len", "connect_push"}
                   => arg'[c].conn # conns'[i]
       /\ \A k \in 1..Len(removedBy) :
             removedBy[k] # -1 => removedBy'[k] = removedBy[k]
      ]_vars

C18_Witness ==
    /\ \E k \in 1..Len(removedBy) : removedBy[k] # -1
    /\ \E c \in Callers : pc[c] = "connect_push"
    /\ \E c \in Callers : ret[c] = Err("connect")

\* C19: a connect that fails, at Url::parse or at the handshake, returns an
\* error and no handle, takes no lock and leaves the collection as it was;
\* its caller is back in its own code, nothing is tried again.
C19_FailedConnect ==
    [][((pc' = pc /\ calls' = calls + 1)
        \/ \E c \in Callers : pc[c] = "handshake" /\ pc'[c] = "idle")
       => /\ \E c \in Callers :
                /\ pc[c] \in {"idle", "handshake"}
                /\ pc' = [pc EXCEPT ![c] = "idle"]
                /\ ret' = [ret EXCEPT ![c] = Err("connect")]
          /\ conns' = conns
          /\ inserted' = inserted
          /\ issued' = issued
          /\ lockHolder' = lockHolder
          /\ wire' = wire
          /\ calls' <= calls + 1
      ]_vars

C19_Witness ==
    /\ conns # <<>>
    /\ \E c, d \in Callers :
          /\ c # d
          /\ ret[c] = Err("connect")
          /\ ret[d].op = "connect" /\ ret[d].ok
    /\ calls = 3

C12_ErrorOrComplete ==
    /\ (result.kind # "None") <=> (hpc = "done")
    /\ result.kind \in {"None", "Err", "Ok"}
    /\ result.kind = "Err"
          => /\ result.cause \in {"curl", "utf8"}
             /\ result.status = 0
             /\ result.headers = <<>>
             /\ result.body = <<>>
    /\ result.kind = "Ok"
          => /\ easy.url = request.url
             /\ easy.verb.opt # "none"
             /\ easy.http_headers = request.headers
             /\ easy.post_fields = request.body
             /\ status_code \in StatusCodes
             /\ Utf8Valid(header_buffer)
             /\ Utf8Valid(response_body)
             /\ result.status = status_code
             /\ result.headers = ParseHeaders(header_buffer)
             /\ result.body = response_body

\* the last stage fails after the status code and the header lines were
\* obtained: the body is not UTF-8 text
C12_Witness ==
    /\ result.kind = "Err"
    /\ result.cause = "utf8"
    /\ status_code = 200
    /\ Utf8Valid(header_buffer)
    /\ ~Utf8Valid(response_body)

\* C13 as stated: for a method token outside the verb list,
\* send_http_request returns an error only when a transport call failed.
C13_ErrOnlyFromTransport ==
    (request.method \notin KnownMethods /\ result.kind = "Err")
        => result.cause = "curl"

\* C13: a method token outside the verb list is not rejected by
\* send_http_request: once the method stage is passed the handle carries the
\* token itself as its custom request, and the call returns an error only
\* with the message of a failed curl call or of a failed UTF-8 decoding of
\* the received headers or body.
C13_UnknownMethodForwarded ==
    (hpc # "idle" /\ request.method \notin KnownMethods)
        => /\ hpc \in {"headers", "body", "transfer", "status", "decode"}
                 => easy.verb.opt # "none"
           /\ easy.verb.opt # "none"
                 => easy.verb =
                       [opt |-> "custom_request", custom |-> request.method]
           /\ result.kind = "Ok" => easy.verb.custom = request.method
           /\ result.kind = "Err" => result.cause \in {"curl", "utf8"}
           /\ (result.kind = "Err" /\ result.cause = "utf8")
                 => ~Utf8Valid(header_buffer) \/ ~Utf8Valid(response_body)

\* the endpoint answers the unknown verb with 405 and the call succeeds
C13_Witness ==
    /\ request.method = "INVALID"
    /\ easy.verb.custom = "INVALID"
    /\ result.kind = "Ok"
    /\ result.status = 405

\* C14: for every method token the headers are appended to the list in the
\* order given, duplicates included and unmodified, and the list is set on
\* the handle; the body is attached whenever the request has one, whatever
\* the method; the option chosen for the method depends on the token alone.
C14_HeadersAndBodyForAnyMethod ==
    /\ hpc = "headers"
          => /\ Len(headers_list) <= Len(request.headers)
             /\ \A i \in 1..Len(headers_list) :
                   headers_list[i] = request.headers[i]
    /\ (hpc \in {"body", "transfer", "status", "decode"} \/ result.kind = "Ok")
          => /\ Len(easy.http_headers) = Len(request.headers)
             /\ \A i \in 1..Len(request.headers) :
                   easy.http_headers[i] = request.headers[i]
    /\ (hpc \in {"transfer", "status", "decode"} \/ result.kind = "Ok")
          => /\ easy.post_fields = request.body
             /\ (easy.verb.opt = "get") <=> (request.method = "GET")
             /\ (easy.verb.opt = "post") <=> (request.method = "POST")
             /\ (easy.verb.opt = "put") <=> (request.method = "PUT")
             /\ (easy.verb.opt = "nobody") <=> (request.method = "HEAD")
             /\ (easy.verb.opt = "custom_request")
                   <=> (request.method \notin {"GET", "POST", "PUT", "HEAD"})
             /\ easy.verb.opt = "custom_request"
                   => easy.verb.custom = request.method

\* a HEAD request with a body and the same header twice has gone through
C14_Witness ==
    /\ request.method = "HEAD"
    /\ request.body = <<"test data">>
    /\ request.headers = <<"X-Test: 1", "X-Test: 1">>
    /\ easy.post_fields = <<"test data">>
    /\ easy.http_headers = <<"X-Test: 1", "X-Test: 1">>
    /\ result.kind = "Ok"

\* C15: the headers of a response are the pieces of the received header
\* bytes that lie between the occurrences of CR LF, in the order received,
\* the empty pieces left out: the k-th header is the k-th maximal run of
\* bytes that belong to no CR LF pair.
C15_HeaderLines ==
    result.kind = "Ok"
        => LET b == header_buffer
               n == Len(b)
               starts == {i \in 1..(n - 1) : b[i] = "CR" /\ b[i + 1] = "LF"}
               InPair(i) == i \in starts \/ (i - 1) \in starts
               first == {i \in 1..n : ~InPair(i) /\ (i = 1 \/ InPair(i - 1))}
               last == {i \in 1..n : ~InPair(i) /\ (i = n \/ InPair(i + 1))}
               Nth(S, k) ==
                   CHOOSE i \in S : Cardinality({j \in S : j < i}) = k - 1
           IN  /\ Len(result.headers) = Cardinality(first)
               /\ \A k \in 1..Len(result.headers) :
                     /\ result.headers[k] # <<>>
                     /\ result.headers[k] =
                           SubSeq(b, Nth(first, k), Nth(last, k))

\* a response whose header bytes hold an empty piece and a non-empty one
C15_Witness ==
    /\ result.kind = "Ok"
    /\ Len(result.headers) >= 1
    /\ Len(SplitCRLF(header_buffer)) > Len(result.headers)
    /\ \E i \in 1..Len(header_buffer) :
          header_buffer[i] = "CR"
          /\ (i = Len(header_buffer) \/ header_buffer[i + 1] # "LF")

\* C21 as stated: a caller that holds the view and whose next close is
\* suspended has finished at least 32 and at most 33 closes since it took
\* the view.
C21_HolderCompletes32To33 ==
    \A c \in Callers :
        (lockHolder = c /\ pc[c] = "close_send" /\ Len(queue) = Capacity)
            => heldCloses \in Capacity..(Capacity + 1)

\* C21: while a caller holds the view no command is applied, and the closes
\* it has finished since it took the view are among the commands enqueued
\* and not yet applied, which number at most 33 (one taken by the actor,
\* which then waits for the lock, plus 32 buffered); when its next close is
\* suspended they number 32 or 33, so a holder that took the view with
\* nothing outstanding has finished 32 or 33 closes; once the actor waits
\* for the lock with the channel full, that close stays suspended and the
\* view stays held in every further step.  Conversely, if every caller that
\* holds the view eventually gives it up (the manager stays alive), every
\* close that was called eventually returns and the actor eventually has
\* applied every command enqueued so far.
C21_QueueAndLock ==
    /\ [][\A c \in Callers :
             LET Stuck == /\ lockHolder = c
                          /\ pc[c] = "close_send"
                          /\ Len(queue) = Capacity
                          /\ actorPc = "lock"
             IN  /\ lockHolder = c
                       => /\ heldCloses <= enq - nApplied
                          /\ enq - nApplied <= Capacity + 1
                          /\ enq - nApplied =
                                Len(queue)
                                + (IF actorPc = "lock" THEN 1 ELSE 0)
                          /\ (pc[c] = "close_send" /\ Len(queue) = Capacity)
                                => /\ enq - nApplied
                                         \in Capacity..(Capacity + 1)
                                   /\ heldCloses = enq
                                         => heldCloses
                                               \in Capacity..(Capacity + 1)
                 /\ (lockHolder = c /\ lockHolder' = c)
                       => nApplied' = nApplied
                 /\ Stuck
                       => /\ lockHolder' = c
                          /\ pc'[c] = "close_send"
                          /\ actorPc' = "lock"
                          /\ queue' = queue
                          /\ enq' = enq
         ]_vars
    /\ (\A c \in Callers : [](lockHolder = c => <>(lockHolder # c)))
          => /\ \A c \in Callers : (pc[c] = "close_send") ~> (pc[c] = "idle")
             /\ (nApplied < enq) ~> (nApplied = enq)

\* the holder of the view took it with nothing outstanding, has finished 33
\* closes, and its 34th is suspended for good
C21_Witness ==
    \E c \in Callers :
        /\ lockHolder = c
        /\ pc[c] = "close_send"
        /\ Len(queue) = Capacity
        /\ actorPc = "lock"
        /\ heldCloses = Capacity + 1
        /\ enq = Capacity + 1
        /\ nApplied = 0

====
